---- MODULE Spec2Model ----
(***************************************************************************)
(* Streaming text-to-speech session of raycast-elevenlabs-tts.             *)
(*                                                                         *)
(* One invocation of streamElevenLabsAudio: a WebSocket to the backend,    *)
(* asynchronous message handlers that append decoded chunks to a temp      *)
(* file, one local player process, and the promise the function returns.   *)
(* Two variants of the function exist in the repository:                   *)
(*   "await"    src/src/speak-selected.tsx  (await playAudio(tempFile))    *)
(*   "callback" src/unnamed/part_004        (audioPlayer.play(file, cb))   *)
(* The variant is fixed in the initial state.                              *)
(*                                                                         *)
(* The session runs inside Command, which shows the progress toasts,       *)
(* validates the selection, awaits the session's promise and shows the     *)
(* failure toast when it rejects.                                          *)
(*                                                                         *)
(* Every suspension point of the code (await fs.writeFile, await           *)
(* showToast, await playAudio, await fs.unlink) separates two actions; the *)
(* code between two suspension points is one action.  File-system          *)
(* operations handed to the thread pool (writeFile, unlink) take effect    *)
(* when their completion action fires, in any order.                       *)
(***************************************************************************)
EXTENDS Integers, Sequences, FiniteSets, TLC

\* Bound of the model: number of inbound messages the backend delivers.
MaxMsgs == 2

\* Bounds of the temp file naming model: readings of the clock and invocations.
MaxClock == 6
MaxInvocations == 2

\* Bound of the preference model: length of a preference string.
MaxPrefLen == 3

\* Bounds of the helper calls: length of a text, explicit maxLength argument,
\* number of tokens of an error message.
MaxTextLen == 3
MaxPreviewLen == 2
MaxErrorLen == 2

VARIABLES
  variant,        \* "await" | "callback": which streamElevenLabsAudio runs
  wsState,        \* "none" (no socket yet) | "connecting" | "open" | "closing" |
                  \*   "failed" | "closed"
  wsError,        \* message of the transport error emitted, <<>> if none
  sent,           \* outbound messages, in order
  msgs,           \* inbound messages delivered so far, in arrival order
  hpc,            \* hpc[i]: position of the handler of msgs[i]
  isPlaying,      \* let isPlaying
  chunksReceived, \* let chunksReceived
  fileExists,     \* tempFile exists on disk
  fileData,       \* bytes of tempFile
  appendLog,      \* history: indexes of messages in the order their append completed
  pendingUnlinks, \* fs.unlink calls issued and not yet executed
  unlinksIssued,  \* history: number of fs.unlink(tempFile) calls issued
  player,         \* "none" | "running" | "ok" | "failed"
  playerStarts,   \* history: number of times the player was started
  playerFileOk,   \* the file existed with at least one byte when the player started
  playErr,        \* error the playback catch block will reject with
  settled,        \* the promise returned by streamElevenLabsAudio
  fileAtSettle,   \* history: "none" | "present" | "absent" at the moment it settled
  toasts,         \* notifications shown (showToast calls), in order
  cmd,            \* position of Command: "start" | "validate" | "processing" |
                  \*   "streaming" | "done"
  selection,      \* what getSelectedText() gave, NoSelection before it is read
  clock,          \* Date.now()
  tempFiles,      \* temp file names created so far, one per invocation
  cancelRequested, \* history: the user asked to stop this invocation
  closedIdle,     \* history: the close handler ran while isPlaying was false
  prefs,          \* getPreferenceValues(): the stability and similarityBoost strings
  voiceSettings,  \* what prepareVoiceSettings returned, NaN fields before it ran
  call,           \* a direct call of an exported helper (as the unit tests make)
  ret             \* what that call returned

vars == <<variant, wsState, wsError, sent, msgs, hpc, isPlaying, chunksReceived,
          fileExists, fileData, appendLog, pendingUnlinks, unlinksIssued, player,
          playerStarts, playerFileOk, playErr, settled, fileAtSettle, toasts,
          cmd, selection, clock, tempFiles, cancelRequested, closedIdle, prefs,
          voiceSettings, call, ret>>

\* What the handlers of streamElevenLabsAudio never write.
cmdVars == <<selection, clock, tempFiles, cancelRequested, prefs, voiceSettings,
             call, ret>>

----------------------------------------------------------------------------
\* Inbound messages (WSMessage) and their payloads

\* A base64 string is modelled by its sequence of 6-bit digits:
\* "QUJD" = <<16,20,9,3>>, "REVG" = <<17,4,21,6>>.
Payloads == { <<16, 20, 9, 3>>, <<17, 4, 21, 6>> }

\* Buffer.from(audio, "base64") on a 4-digit group: three bytes.
Base64Decode(p) ==
  << p[1] * 4 + (p[2] \div 16),
     (p[2] % 16) * 16 + (p[3] \div 4),
     (p[3] % 4) * 64 + p[4] >>

\* audio = <<>> stands for a message whose audio is absent, null or "" (all falsy).
WSMessage ==
  [kind : {"json"}, audio : Payloads \cup {<<>>}, isFinal : BOOLEAN]
    \cup {[kind |-> "malformed", audio |-> <<>>, isFinal |-> FALSE]}

\* Mutant of HasAudio: every parsed message counts as audio-bearing.
HasAudio_AnyParsed(m) == m.kind = "json"

HasAudio(m) == m.kind = "json" /\ m.audio # <<>>

----------------------------------------------------------------------------
\* The promise returned by streamElevenLabsAudio

Pending == [state |-> "pending", error |-> <<>>]
Resolved == [state |-> "resolved", error |-> <<>>]
Rejected(e) == [state |-> "rejected", error |-> e]

\* Mutant of RejectP: a later reject replaces the outcome.
RejectP_Overwrite(s, e) == [state |-> "rejected", error |-> e]

\* resolve() and reject(e): only the first call settles the promise.
ResolveP(s) == IF s = Pending THEN Resolved ELSE s
RejectP(s, e) == IF s = Pending THEN Rejected(e) ELSE s

----------------------------------------------------------------------------
\* getErrorMessage

\* An error message is a sequence of tokens; includes() is token containment.
Includes(msg, tok) == \E k \in DOMAIN msg : msg[k] = tok

InvalidCredentialMsg ==
  <<"Invalid API key - Please check your ElevenLabs API key in Raycast preferences">>
NetworkUnavailableMsg ==
  <<"No internet connection - Please check your network and try again">>

\* Mutant of getErrorMessage: the connectivity test comes first.
getErrorMessage_NetworkFirst(msg) ==
  IF Includes(msg, "ENOTFOUND") THEN NetworkUnavailableMsg
  ELSE IF Includes(msg, "invalid_api_key") THEN InvalidCredentialMsg
  ELSE <<"ElevenLabs error: ">> \o msg

\* Mutant of getErrorMessage: no message is classified.
getErrorMessage_Unclassified(msg) == <<"ElevenLabs error: ">> \o msg

getErrorMessage(msg) ==
  IF Includes(msg, "invalid_api_key") THEN InvalidCredentialMsg
  ELSE IF Includes(msg, "ENOTFOUND") THEN NetworkUnavailableMsg
  ELSE <<"ElevenLabs error: ">> \o msg

\* Messages of the transport errors the socket can emit.
TransportErrors ==
  { <<"invalid_api_key">>,
    <<"getaddrinfo", "ENOTFOUND", "api.elevenlabs.io">>,
    <<"Unexpected server response: 500">> }

PlayerExitErr == <<"afplay exited with code 1">>
UnlinkENOENT == <<"ENOENT: no such file or directory, unlink">>

----------------------------------------------------------------------------
\* createStreamConfig and the open handler's three messages

createStreamConfig(text, settings) ==
  [text |-> text,
   voice_settings |-> settings,
   generation_config |->
     [chunk_length_schedule |-> <<120, 160, 250, 290>>, stream_chunk_size |-> 8192]]
Bos == [type |-> "bos"]
Eos == [type |-> "eos"]

\* Mutant of OpenMessages: the end-of-stream marker is sent before the start marker.
OpenMessages_EosFirst(text, settings) == <<createStreamConfig(text, settings), Eos, Bos>>

\* The three ws.send calls of the open handler, in order.
OpenMessages(text, settings) == <<createStreamConfig(text, settings), Bos, Eos>>

----------------------------------------------------------------------------
\* Text utilities.  A text is a sequence of one-character strings.

IsSpace(c) == c \in {" ", "\t", "\n"}

RECURSIVE TrimStart(_)
TrimStart(t) == IF t # <<>> /\ IsSpace(Head(t)) THEN TrimStart(Tail(t)) ELSE t

RECURSIVE TrimEnd(_)
TrimEnd(t) ==
  IF t # <<>> /\ IsSpace(t[Len(t)]) THEN TrimEnd(SubSeq(t, 1, Len(t) - 1)) ELSE t

\* String.prototype.trim
Trim(t) == TrimEnd(TrimStart(t))

\* Number of pieces of t.split(/\s+/): one more than the number of maximal
\* whitespace runs, also for the empty string ([""]).
SplitCount(t) ==
  1 + Cardinality({k \in 1..Len(t) : IsSpace(t[k]) /\ (k = 1 \/ ~IsSpace(t[k - 1]))})

\* getTextStats: text.trim().split(/\s+/).length and text.length
getTextStats(text) == [wordCount |-> SplitCount(Trim(text)), charCount |-> Len(text)]

\* Default of getTextPreview's maxLength parameter.
DefaultMaxLength == 50

\* Mutant of getTextPreview: the text is not trimmed.
getTextPreview_Untrimmed(text, maxLength) ==
  IF Len(text) > maxLength
  THEN SubSeq(text, 1, maxLength) \o <<".", ".", ".">>
  ELSE text

\* getTextPreview
getTextPreview(text, maxLength) ==
  LET trimmedText == Trim(text) IN
  IF Len(trimmedText) > maxLength
  THEN SubSeq(trimmedText, 1, maxLength) \o <<".", ".", ".">>
  ELSE trimmedText

----------------------------------------------------------------------------
\* getSelectedText and validateSelectedText

NoSelection == [kind |-> "none", error |-> <<>>, text |-> <<>>]
Selected(t) == [kind |-> "text", error |-> <<>>, text |-> t]
SelectionThrows(e) == [kind |-> "throws", error |-> e, text |-> <<>>]

HelloWorld == <<"H", "e", "l", "l", "o", " ", "w", "o", "r", "l", "d">>

\* Outcomes of getSelectedText(): a text (possibly empty or blank) or an error.
Selections ==
  { Selected(HelloWorld), Selected(<<>>), Selected(<<" ", "\t">>),
    SelectionThrows(<<"Unable to get selected text">>),
    SelectionThrows(<<"Accessibility permission denied">>) }

\* The messages of the two errors validateSelectedText creates; both end with the
\* shortcut hint "(Opt D)", left out here.
NoTextSelectedMsg == <<"No text selected - Select text and try again">>
SelectTextFirstMsg == <<"Select text in any application before running this command">>

\* Mutant of validateSelectedText: only the empty text is refused, a blank one
\* passes.
validateSelectedText_EmptyOnly(sel) ==
  LET thrown == IF sel.kind = "throws" THEN sel.error
                ELSE IF sel.text = <<>> THEN NoTextSelectedMsg
                ELSE <<>>
  IN IF thrown # <<>> /\ Includes(thrown, "Unable to get selected text")
     THEN SelectTextFirstMsg
     ELSE thrown

\* validateSelectedText: <<>> when the text is returned, else the message of the
\* error it throws.
validateSelectedText(sel) ==
  LET thrown == IF sel.kind = "throws" THEN sel.error
                ELSE IF sel.text = <<>> \/ Len(Trim(sel.text)) = 0
                     THEN NoTextSelectedMsg
                     ELSE <<>>
  IN IF thrown # <<>> /\ Includes(thrown, "Unable to get selected text")
     THEN SelectTextFirstMsg
     ELSE thrown

----------------------------------------------------------------------------
\* prepareVoiceSettings.  A number is NaN or the decimal fraction num/den, den a
\* power of ten.

NaN == [nan |-> TRUE, num |-> 0, den |-> 1]
Num(n, d) == [nan |-> FALSE, num |-> n, den |-> d]

IsDigit(c) == c \in {"0", "1", "2", "3", "4", "5", "6", "7", "8", "9"}
DigitVal(c) ==
  CASE c = "0" -> 0 [] c = "1" -> 1 [] c = "2" -> 2 [] c = "3" -> 3 [] c = "4" -> 4
    [] c = "5" -> 5 [] c = "6" -> 6 [] c = "7" -> 7 [] c = "8" -> 8 [] c = "9" -> 9

RECURSIVE DigitRun(_)
\* Length of the run of digits t starts with.
DigitRun(t) == IF t # <<>> /\ IsDigit(Head(t)) THEN 1 + DigitRun(Tail(t)) ELSE 0

RECURSIVE DigitsValue(_)
\* Value of a sequence of digits read as a decimal numeral, 0 for none.
DigitsValue(t) ==
  IF t = <<>> THEN 0 ELSE DigitsValue(SubSeq(t, 1, Len(t) - 1)) * 10 + DigitVal(t[Len(t)])

RECURSIVE Pow10(_)
Pow10(k) == IF k = 0 THEN 1 ELSE 10 * Pow10(k - 1)

\* parseFloat: skips leading white space, reads an optional sign and the longest
\* prefix that is a decimal literal (digits, optionally "." and digits, or "."
\* and at least one digit), ignores what follows; NaN when there is no such prefix.
parseFloat(str) ==
  LET t == TrimStart(str)
      signed == t # <<>> /\ Head(t) \in {"-", "+"}
      sign == IF t # <<>> /\ Head(t) = "-" THEN -1 ELSE 1
      u == IF signed THEN Tail(t) ELSE t
      ni == DigitRun(u)
      afterInt == SubSeq(u, ni + 1, Len(u))
      nf == IF afterInt # <<>> /\ Head(afterInt) = "." THEN DigitRun(Tail(afterInt)) ELSE 0
      digits == SubSeq(u, 1, ni) \o SubSeq(afterInt, 2, nf + 1)
  IN IF ni + nf = 0 THEN NaN ELSE Num(sign * DigitsValue(digits), Pow10(nf))

\* x || d: d when x is falsy (NaN, 0 or -0)
OrDefault(x, d) == IF x.nan \/ x.num = 0 THEN d ELSE x

\* Math.max(0, x) and Math.min(1, x), NaN when x is NaN
MathMax0(x) == IF x.nan THEN NaN ELSE IF x.num < 0 THEN Num(0, 1) ELSE x
MathMin1(x) == IF x.nan THEN NaN ELSE IF x.num > x.den THEN Num(1, 1) ELSE x

\* Mutant of Clamp01: the upper bound is missing.
Clamp01_NoUpper(x) == MathMax0(x)

\* Math.min(1, Math.max(0, x))
Clamp01(x) == MathMin1(MathMax0(x))

DefaultStability == Num(5, 10)
DefaultSimilarityBoost == Num(75, 100)

prepareVoiceSettings(preferences) ==
  [stability |-> Clamp01(OrDefault(parseFloat(preferences.stability), DefaultStability)),
   similarity_boost |->
     Clamp01(OrDefault(parseFloat(preferences.similarityBoost), DefaultSimilarityBoost))]

\* Valid preference strings, those of the unit test "should handle valid
\* preference values".
ValidPrefs ==
  [stability |-> <<"0", ".", "7">>, similarityBoost |-> <<"0", ".", "8">>]

----------------------------------------------------------------------------
\* Toasts (showToast)

CheckingToast == [kind |-> "checking", style |-> "Animated", arg |-> <<>>]
ProcessingToast(wordCount) ==
  [kind |-> "processing", style |-> "Animated", arg |-> <<wordCount>>]
SpeakingToast(previewText) ==
  [kind |-> "speaking", style |-> "Success", arg |-> previewText]
FailureToast(message) == [kind |-> "failure", style |-> "Failure", arg |-> message]

\* const tempFile = join(tmpdir(), `raycast-tts-${Date.now()}.mp3`)
tempFileName(now) == <<"raycast-tts-", now, ".mp3">>

----------------------------------------------------------------------------
\* The state when Command is invoked, but for the preferences.
InitCommand ==
  /\ variant \in {"await", "callback"}
  /\ wsState = "none"
  /\ cmd = "start"
  /\ selection = NoSelection
  /\ clock = 0
  /\ tempFiles = <<>>
  /\ cancelRequested = FALSE
  /\ closedIdle = FALSE
  /\ voiceSettings = [stability |-> NaN, similarity_boost |-> NaN]
  /\ wsError = <<>>
  /\ sent = <<>>
  /\ msgs = <<>>
  /\ hpc = <<>>
  /\ isPlaying = FALSE
  /\ chunksReceived = 0
  /\ fileExists = FALSE
  /\ fileData = <<>>
  /\ appendLog = <<>>
  /\ pendingUnlinks = {}
  /\ unlinksIssued = 0
  /\ player = "none"
  /\ playerStarts = 0
  /\ playerFileOk = FALSE
  /\ playErr = <<>>
  /\ settled = Pending
  /\ fileAtSettle = "none"
  /\ toasts = <<>>

\* No helper is called from outside Command.
NoCall == [fn |-> "none", argText |-> <<>>, argMaxLength |-> 0, argError |-> <<>>]
NoRet ==
  [returned |-> FALSE, retStats |-> [wordCount |-> 0, charCount |-> 0],
   retPreview |-> <<>>, retMessage |-> <<>>]

\* Command is invoked with valid preferences.
Init == InitCommand /\ prefs = ValidPrefs /\ call = NoCall /\ ret = NoRet

\* History: whether tempFile exists at the moment the promise settles.
ObserveSettle ==
  fileAtSettle' = IF settled = Pending /\ settled' # Pending
                  THEN (IF fileExists' THEN "present" ELSE "absent")
                  ELSE fileAtSettle

\* Command, awaiting streamElevenLabsAudio: its continuation runs in the turn
\* in which the promise settles.  It returns on resolve ...
CommandReturn ==
  cmd' = IF settled = Pending /\ settled' # Pending THEN "done" ELSE cmd

\* ... and on reject its catch block shows the failure toast with error.message.
CommandCatch ==
  toasts' = IF settled = Pending /\ settled'.state = "rejected"
            THEN Append(toasts, FailureToast(settled'.error))
            ELSE toasts

\* Command: showToast("Checking for selected text..."), then validateSelectedText()
CmdCheck ==
  /\ cmd = "start"
  /\ cmd' = "validate"
  /\ toasts' = Append(toasts, CheckingToast)
  /\ UNCHANGED <<variant, wsState, wsError, sent, msgs, hpc, isPlaying, chunksReceived,
                 fileExists, fileData, appendLog, pendingUnlinks, unlinksIssued, player,
                 playerStarts, playerFileOk, playErr, settled, fileAtSettle>>
  /\ UNCHANGED <<cmdVars, closedIdle>>

\* Command: validateSelectedText() returns or throws.  On a throw the catch block
\* shows the failure toast; otherwise the statistics are computed and
\* showToast("Processing n words") is called and awaited.
CmdValidate(sel) ==
  /\ cmd = "validate"
  /\ selection' = sel
  /\ IF validateSelectedText(sel) # <<>>
     THEN /\ toasts' = Append(toasts, FailureToast(validateSelectedText(sel)))
          /\ cmd' = "done"
          /\ UNCHANGED voiceSettings
     ELSE /\ voiceSettings' = prepareVoiceSettings(prefs)
          /\ toasts' = Append(toasts, ProcessingToast(getTextStats(sel.text).wordCount))
          /\ cmd' = "processing"
  /\ UNCHANGED <<variant, wsState, wsError, sent, msgs, hpc, isPlaying, chunksReceived,
                 fileExists, fileData, appendLog, pendingUnlinks, unlinksIssued, player,
                 playerStarts, playerFileOk, playErr, settled, fileAtSettle>>
  /\ UNCHANGED <<clock, tempFiles, cancelRequested, closedIdle, prefs, call, ret>>

\* Command: await streamElevenLabsAudio(...): the temp file is named and the
\* socket created (setupWebSocket); the handlers are registered.
CmdStream ==
  /\ cmd = "processing"
  /\ cmd' = "streaming"
  /\ tempFiles' = Append(tempFiles, tempFileName(clock))
  /\ wsState' = "connecting"
  /\ UNCHANGED <<variant, wsError, sent, msgs, hpc, isPlaying, chunksReceived,
                 fileExists, fileData, appendLog, pendingUnlinks, unlinksIssued, player,
                 playerStarts, playerFileOk, playErr, settled, fileAtSettle, toasts>>
  /\ UNCHANGED <<selection, clock, cancelRequested, closedIdle, prefs, voiceSettings,
                 call, ret>>

\* ws.close(): starts the closing handshake of an open socket, else nothing.
WsClose(w) == IF w = "open" THEN "closing" ELSE w

\* if (message.isFinal) { ws.close(); resolve(); } with s the promise so far.
EndOfStream(i, s) ==
  /\ wsState' = IF msgs[i].isFinal THEN WsClose(wsState) ELSE wsState
  /\ settled' = IF msgs[i].isFinal THEN ResolveP(s) ELSE s

\* ws.on("open")
OnOpen ==
  /\ wsState = "connecting"
  /\ wsState' = "open"
  /\ sent' = sent \o OpenMessages(selection.text, voiceSettings)
  /\ UNCHANGED <<variant, wsError, msgs, hpc, isPlaying, chunksReceived, fileExists,
                 fileData, appendLog, pendingUnlinks, unlinksIssued, player,
                 playerStarts, playerFileOk, playErr, settled, fileAtSettle, toasts,
                 cmd>>
  /\ UNCHANGED <<cmdVars, closedIdle>>


\* Mutant of OnNonAudio: chunksReceived++ placed before the audio test.
OnNonAudio_Counted(m) ==
  /\ chunksReceived' = chunksReceived + 1
  /\ UNCHANGED <<wsState, isPlaying, settled, fileAtSettle>>

\* Skip non-audio messages: if (!message.audio) { console.log(...); return; }
OnNonAudio(m) ==
  UNCHANGED <<wsState, isPlaying, chunksReceived, settled, fileAtSettle>>

\* ws.on("message"), up to the first suspension (await fs.writeFile).
\* The socket still delivers frames after ws.close() until the close handshake ends.
OnMessage(m) ==
  /\ wsState \in {"open", "closing"}
  /\ Len(msgs) < MaxMsgs
  /\ msgs' = Append(msgs, m)
  /\ IF m.kind = "malformed"
     THEN \* JSON.parse throws: the async handler ends with an unhandled rejection
          /\ hpc' = Append(hpc, "threw")
          /\ UNCHANGED <<wsState, isPlaying, chunksReceived, settled, fileAtSettle>>
     ELSE IF ~HasAudio(m)
     THEN /\ hpc' = Append(hpc, "done")
          /\ OnNonAudio(m)
     ELSE /\ chunksReceived' = chunksReceived + 1
          /\ hpc' = Append(hpc, "write")
          /\ UNCHANGED <<wsState, isPlaying, settled, fileAtSettle>>
  /\ UNCHANGED <<variant, wsError, sent, fileExists, fileData, appendLog,
                 pendingUnlinks, unlinksIssued, player, playerStarts, playerFileOk,
                 playErr, toasts, cmd>>
  /\ UNCHANGED <<cmdVars, closedIdle>>

\* Mutant of StartsPlayback: the isPlaying guard is missing.
StartsPlayback_Unguarded(playing) == TRUE

\* if (!isPlaying), tested right after the append completed
StartsPlayback(playing) == ~playing

\* Completion of await fs.writeFile(tempFile, Buffer.from(audio, "base64"), {flag: "a"})
\* of handler i, and the code up to the next suspension (the continuation runs
\* in the same turn as the completion callback).  The handlers are not serialized:
\* appends of handlers in flight together complete in any order.
WriteComplete(i) ==
  /\ hpc[i] = "write"
  /\ fileExists' = TRUE
  /\ fileData' = fileData \o Base64Decode(msgs[i].audio)
  /\ appendLog' = Append(appendLog, i)
  /\ IF StartsPlayback(isPlaying)
     THEN \* isPlaying = true; showToast("Now speaking") is called and awaited
          /\ isPlaying' = TRUE
          /\ toasts' = Append(toasts, SpeakingToast(getTextPreview(selection.text,
                                                                   DefaultMaxLength)))
          /\ hpc' = [hpc EXCEPT ![i] = "toast"]
          /\ UNCHANGED <<wsState, settled>>
     ELSE /\ hpc' = [hpc EXCEPT ![i] = "done"]
          /\ EndOfStream(i, settled)
          /\ UNCHANGED <<isPlaying, toasts>>
  /\ UNCHANGED <<variant, wsError, sent, msgs, chunksReceived, pendingUnlinks,
                 unlinksIssued, player, playerStarts, playerFileOk, playErr>>
  /\ UNCHANGED <<cmdVars, closedIdle>>
  /\ ObserveSettle
  /\ CommandReturn

\* await showToast("Now speaking") returns, then the player is started:
\* await playAudio(tempFile) suspends the handler, audioPlayer.play(tempFile, cb)
\* returns at once and the handler goes on to the isFinal test.
ToastDone(i) ==
  /\ hpc[i] = "toast"
  /\ playerStarts' = playerStarts + 1
  /\ player' = "running"
  /\ playerFileOk' = (fileExists /\ Len(fileData) > 0)
  /\ IF variant = "await"
     THEN /\ hpc' = [hpc EXCEPT ![i] = "play"]
          /\ UNCHANGED <<wsState, settled>>
     ELSE /\ hpc' = [hpc EXCEPT ![i] = "done"]
          /\ EndOfStream(i, settled)
  /\ UNCHANGED <<variant, wsError, sent, msgs, isPlaying, chunksReceived, fileExists,
                 fileData, appendLog, pendingUnlinks, unlinksIssued, playErr>>
  /\ UNCHANGED <<cmdVars, closedIdle>>
  /\ ObserveSettle
  /\ CommandReturn
  /\ CommandCatch

\* The player process ends.  A player started on a missing or empty file fails.
\* "await":    try { await playAudio; await fs.unlink } catch { await fs.unlink...; reject }
\* "callback": (err) => { if (err) reject(err); fs.unlink(tempFile).catch(...) }
PlayerExit(ok) ==
  /\ player = "running"
  /\ ok => playerFileOk
  /\ player' = IF ok THEN "ok" ELSE "failed"
  /\ unlinksIssued' = unlinksIssued + 1
  /\ IF variant = "await"
     THEN LET i == CHOOSE j \in DOMAIN hpc : hpc[j] = "play" IN
          /\ hpc' = [hpc EXCEPT ![i] = IF ok THEN "unlinkTry" ELSE "unlinkCatch"]
          /\ pendingUnlinks' =
               pendingUnlinks \cup {<<IF ok THEN "try" ELSE "catch", i>>}
          /\ playErr' = IF ok THEN playErr ELSE PlayerExitErr
          /\ UNCHANGED settled
     ELSE /\ settled' = IF ok THEN settled ELSE RejectP(settled, PlayerExitErr)
          /\ pendingUnlinks' = pendingUnlinks \cup {<<"player", 0>>}
          /\ UNCHANGED <<hpc, playErr>>
  /\ UNCHANGED <<variant, wsState, wsError, sent, msgs, isPlaying, chunksReceived,
                 fileExists, fileData, appendLog, playerStarts, playerFileOk>>
  /\ UNCHANGED <<cmdVars, closedIdle>>
  /\ ObserveSettle
  /\ CommandReturn
  /\ CommandCatch

\* An fs.unlink(tempFile) issued earlier is executed.  The unlinks of the error and
\* close handlers and of the play callback are not awaited (.catch(console.error));
\* the two of the "await" variant's try/catch are, and resume their handler:
\*   try:   unlink failed (ENOENT) -> the catch block runs with that error
\*   catch: reject(err), then the isFinal test
UnlinkComplete(t) ==
  /\ t \in pendingUnlinks
  /\ fileExists' = FALSE
  /\ fileData' = <<>>
  /\ IF t[1] = "try" /\ fileExists
     THEN /\ hpc' = [hpc EXCEPT ![t[2]] = "done"]
          /\ EndOfStream(t[2], settled)
          /\ pendingUnlinks' = pendingUnlinks \ {t}
          /\ UNCHANGED <<unlinksIssued, playErr>>
     ELSE IF t[1] = "try"
     THEN /\ hpc' = [hpc EXCEPT ![t[2]] = "unlinkCatch"]
          /\ playErr' = UnlinkENOENT
          /\ pendingUnlinks' = (pendingUnlinks \ {t}) \cup {<<"catch", t[2]>>}
          /\ unlinksIssued' = unlinksIssued + 1
          /\ UNCHANGED <<wsState, settled>>
     ELSE IF t[1] = "catch"
     THEN /\ hpc' = [hpc EXCEPT ![t[2]] = "done"]
          /\ EndOfStream(t[2], RejectP(settled, playErr))
          /\ pendingUnlinks' = pendingUnlinks \ {t}
          /\ UNCHANGED <<unlinksIssued, playErr>>
     ELSE /\ pendingUnlinks' = pendingUnlinks \ {t}
          /\ UNCHANGED <<hpc, wsState, settled, unlinksIssued, playErr>>
  /\ UNCHANGED <<variant, wsError, sent, msgs, isPlaying, chunksReceived, appendLog,
                 player, playerStarts, playerFileOk>>
  /\ UNCHANGED <<cmdVars, closedIdle>>
  /\ ObserveSettle
  /\ CommandReturn
  /\ CommandCatch

\* Mutant of OnError: the unlink guarded as in the close handler, if (!isPlaying).
OnError_UnlinkIfIdle(e) ==
  /\ wsState \in {"connecting", "open", "closing"}
  /\ wsState' = "failed"
  /\ wsError' = e
  /\ IF ~isPlaying
     THEN /\ pendingUnlinks' = pendingUnlinks \cup {<<"error", 0>>}
          /\ unlinksIssued' = unlinksIssued + 1
     ELSE UNCHANGED <<pendingUnlinks, unlinksIssued>>
  /\ settled' = RejectP(settled, getErrorMessage(e))
  /\ UNCHANGED <<variant, sent, msgs, hpc, isPlaying, chunksReceived, fileExists,
                 fileData, appendLog, player, playerStarts, playerFileOk, playErr>>
  /\ UNCHANGED <<cmdVars, closedIdle>>
  /\ ObserveSettle
  /\ CommandReturn
  /\ CommandCatch

\* ws.on("error"): fs.unlink(tempFile).catch(...); reject(new Error(getErrorMessage(error)))
\* The socket emits at most one error and then only "close".
OnError(e) ==
  /\ wsState \in {"connecting", "open", "closing"}
  /\ wsState' = "failed"
  /\ wsError' = e
  /\ pendingUnlinks' = pendingUnlinks \cup {<<"error", 0>>}
  /\ unlinksIssued' = unlinksIssued + 1
  /\ settled' = RejectP(settled, getErrorMessage(e))
  /\ UNCHANGED <<variant, sent, msgs, hpc, isPlaying, chunksReceived, fileExists,
                 fileData, appendLog, player, playerStarts, playerFileOk, playErr>>
  /\ UNCHANGED <<cmdVars, closedIdle>>
  /\ ObserveSettle
  /\ CommandReturn
  /\ CommandCatch

\* ws.on("close"): if (!isPlaying) fs.unlink(tempFile).catch(...)
OnClose ==
  /\ wsState \in {"open", "closing", "failed"}
  /\ wsState' = "closed"
  /\ IF ~isPlaying
     THEN /\ pendingUnlinks' = pendingUnlinks \cup {<<"close", 0>>}
          /\ unlinksIssued' = unlinksIssued + 1
     ELSE UNCHANGED <<pendingUnlinks, unlinksIssued>>
  /\ closedIdle' = ~isPlaying
  /\ UNCHANGED <<variant, wsError, sent, msgs, hpc, isPlaying, chunksReceived,
                 fileExists, fileData, appendLog, player, playerStarts, playerFileOk,
                 playErr, settled, fileAtSettle, toasts, cmd>>
  /\ UNCHANGED cmdVars

Next ==
  \/ CmdCheck
  \/ \E sel \in Selections : CmdValidate(sel)
  \/ CmdStream
  \/ OnOpen
  \/ \E m \in WSMessage : OnMessage(m)
  \/ \E i \in DOMAIN hpc : WriteComplete(i)
  \/ \E i \in DOMAIN hpc : ToastDone(i)
  \/ \E ok \in BOOLEAN : PlayerExit(ok)
  \/ \E t \in pendingUnlinks : UnlinkComplete(t)
  \/ \E e \in TransportErrors : OnError(e)
  \/ OnClose

Spec == Init /\ [][Next]_vars

----------------------------------------------------------------------------
\* Cancellation.  streamElevenLabsAudio registers handlers for "open", "message",
\* "error" and "close" only and Command none: a stop request (Escape, or the
\* command invoked again) reaches no code of the running invocation.
OnCancel ==
  /\ cmd = "streaming"
  /\ ~cancelRequested
  /\ cancelRequested' = TRUE
  /\ UNCHANGED <<variant, wsState, wsError, sent, msgs, hpc, isPlaying, chunksReceived,
                 fileExists, fileData, appendLog, pendingUnlinks, unlinksIssued, player,
                 playerStarts, playerFileOk, playErr, settled, fileAtSettle, toasts,
                 cmd, selection, clock, tempFiles, closedIdle, prefs, voiceSettings,
                 call, ret>>

NextCancel == Next \/ OnCancel

SpecCancel == Init /\ [][NextCancel]_vars

----------------------------------------------------------------------------
\* Temp file names of invocations that run side by side.  Every invocation that
\* reaches streamElevenLabsAudio names its file from Date.now(); none of the
\* invocations started here has finished.

\* Date.now() advances by a millisecond.
Tick ==
  /\ clock < MaxClock
  /\ clock' = clock + 1
  /\ UNCHANGED <<variant, wsState, wsError, sent, msgs, hpc, isPlaying, chunksReceived,
                 fileExists, fileData, appendLog, pendingUnlinks, unlinksIssued, player,
                 playerStarts, playerFileOk, playErr, settled, fileAtSettle, toasts,
                 cmd, selection, tempFiles, cancelRequested, closedIdle, prefs,
                 voiceSettings, call, ret>>

\* An invocation computes its tempFile.
StartInvocation ==
  /\ Len(tempFiles) < MaxInvocations
  /\ tempFiles' = Append(tempFiles, tempFileName(clock))
  /\ UNCHANGED <<variant, wsState, wsError, sent, msgs, hpc, isPlaying, chunksReceived,
                 fileExists, fileData, appendLog, pendingUnlinks, unlinksIssued, player,
                 playerStarts, playerFileOk, playErr, settled, fileAtSettle, toasts,
                 cmd, selection, clock, cancelRequested, closedIdle, prefs,
                 voiceSettings, call, ret>>

NextNames == Tick \/ StartInvocation

SpecNames == Init /\ [][NextNames]_vars

----------------------------------------------------------------------------
\* prepareVoiceSettings over all short preference strings

\* A digit below and one above 1, the decimal point, the sign, a non-numeric letter.
PrefAlphabet == {"0", "5", ".", "-", "x"}

PrefStrings == UNION {[1..n -> PrefAlphabet] : n \in 0..MaxPrefLen}

InitSettings ==
  /\ InitCommand
  /\ prefs \in [stability : PrefStrings, similarityBoost : PrefStrings]
  /\ call = NoCall
  /\ ret = NoRet

\* Command up to the call of streamElevenLabsAudio, with a valid selection.
NextSettings == CmdCheck \/ CmdValidate(Selected(HelloWorld))

SpecSettings == InitSettings /\ [][NextSettings]_vars

----------------------------------------------------------------------------
\* The exported helpers called directly, as the unit tests call them:
\* getTextStats(text), getTextPreview(text[, maxLength]), getErrorMessage(error).

TextAlphabet == {"a", "b", " ", "\t"}

\* A text between blanks that is one character longer than the default maxLength.
LongText ==
  [k \in 1..(DefaultMaxLength + 3) |->
     IF k \in {1, 4, DefaultMaxLength + 3} THEN " " ELSE "a"]

Texts ==
  UNION {[1..n -> TextAlphabet] : n \in 0..MaxTextLen}
    \cup {HelloWorld, <<" ", " ">> \o HelloWorld \o <<" ", " ">>, LongText}

\* maxLength as passed, DefaultMaxLength when the argument is left out.
PreviewLengths == (0..MaxPreviewLen) \cup {DefaultMaxLength}

\* error.message of the Error passed to getErrorMessage
ErrorMessages ==
  UNION {[1..n -> {"invalid_api_key", "ENOTFOUND", "socket hang up"}] :
           n \in 0..MaxErrorLen}

Calls ==
  [fn : {"getTextStats"}, argText : Texts, argMaxLength : {0}, argError : {<<>>}]
    \cup [fn : {"getTextPreview"}, argText : Texts, argMaxLength : PreviewLengths,
          argError : {<<>>}]
    \cup [fn : {"getErrorMessage"}, argText : {<<>>}, argMaxLength : {0},
          argError : ErrorMessages]

InitHelpers == InitCommand /\ prefs = ValidPrefs /\ call \in Calls /\ ret = NoRet

CallGetTextStats ==
  /\ call.fn = "getTextStats"
  /\ ~ret.returned
  /\ ret' = [ret EXCEPT !.returned = TRUE, !.retStats = getTextStats(call.argText)]
  /\ UNCHANGED <<variant, wsState, wsError, sent, msgs, hpc, isPlaying, chunksReceived,
                 fileExists, fileData, appendLog, pendingUnlinks, unlinksIssued, player,
                 playerStarts, playerFileOk, playErr, settled, fileAtSettle, toasts,
                 cmd, selection, clock, tempFiles, cancelRequested, closedIdle, prefs,
                 voiceSettings, call>>

CallGetTextPreview ==
  /\ call.fn = "getTextPreview"
  /\ ~ret.returned
  /\ ret' = [ret EXCEPT !.returned = TRUE,
                        !.retPreview = getTextPreview(call.argText, call.argMaxLength)]
  /\ UNCHANGED <<variant, wsState, wsError, sent, msgs, hpc, isPlaying, chunksReceived,
                 fileExists, fileData, appendLog, pendingUnlinks, unlinksIssued, player,
                 playerStarts, playerFileOk, playErr, settled, fileAtSettle, toasts,
                 cmd, selection, clock, tempFiles, cancelRequested, closedIdle, prefs,
                 voiceSettings, call>>

CallGetErrorMessage ==
  /\ call.fn = "getErrorMessage"
  /\ ~ret.returned
  /\ ret' = [ret EXCEPT !.returned = TRUE, !.retMessage = getErrorMessage(call.argError)]
  /\ UNCHANGED <<variant, wsState, wsError, sent, msgs, hpc, isPlaying, chunksReceived,
                 fileExists, fileData, appendLog, pendingUnlinks, unlinksIssued, player,
                 playerStarts, playerFileOk, playErr, settled, fileAtSettle, toasts,
                 cmd, selection, clock, tempFiles, cancelRequested, closedIdle, prefs,
                 voiceSettings, call>>

NextHelpers == CallGetTextStats \/ CallGetTextPreview \/ CallGetErrorMessage

SpecHelpers == InitHelpers /\ [][NextHelpers]_vars

----------------------------------------------------------------------------
\* Derived state used by the properties

\* No handler is suspended: every one returned or threw.
HandlersIdle == \A i \in DOMAIN hpc : hpc[i] \in {"done", "threw"}

\* No append is in flight and no first-chunk handler is waiting to start the player.
StartDecided == \A i \in DOMAIN hpc : hpc[i] \notin {"write", "toast"}

\* Nothing failed: no transport error, no unparseable message, no player failure.
ErrorFree ==
  /\ wsError = <<>>
  /\ player # "failed"
  /\ \A i \in DOMAIN hpc : hpc[i] # "threw"

\* Connection closed, player not running, nothing in flight.
Quiescent ==
  /\ wsState = "closed"
  /\ HandlersIdle
  /\ pendingUnlinks = {}
  /\ player # "running"

RECURSIVE ConcatDecoded(_, _)
\* decode(msgs[ix[1]]) ++ ... ++ decode(msgs[ix[n]])
ConcatDecoded(ix, ms) ==
  IF ix = <<>> THEN <<>>
  ELSE Base64Decode(ms[Head(ix)].audio) \o ConcatDecoded(Tail(ix), ms)

\* Indexes of the audio-bearing messages, in arrival order.
AudioIndexes == SelectSeq([k \in 1..Len(msgs) |-> k], LAMBDA k : HasAudio(msgs[k]))

----------------------------------------------------------------------------
\* C1: in every execution fs.unlink(tempFile) is issued exactly once: never twice,
\* and a session that created the file and came to rest has issued one.
C1_UnlinkExactlyOnce ==
  /\ unlinksIssued <= 1
  /\ (Quiescent /\ appendLog # <<>>) => unlinksIssued >= 1

\* C2: at the moment the promise settles (resolve or reject) tempFile does not exist.
C2_NoFileAtSettle == fileAtSettle # "present"

\* C3: the player is started at most once in every interleaving of the handlers,
\* and exactly once in an error-free session that received n >= 1 audio chunks,
\* once no append or start is still in flight.
C3_PlayerStartedOnce ==
  /\ playerStarts <= 1
  /\ (ErrorFree /\ StartDecided /\ chunksReceived >= 1) => playerStarts = 1

\* C3 witness: two chunks were received and appended without any error, all
\* handlers returned, and the player was started once.
C3_Witness ==
  /\ chunksReceived >= 2
  /\ Len(appendLog) >= 2
  /\ ErrorFree
  /\ HandlersIdle
  /\ playerStarts = 1

\* C4: whenever the player has been started, tempFile existed at that moment and
\* held at least one appended chunk.
C4_PlayerFileReady == playerStarts >= 1 => playerFileOk

\* C5: the appends complete in arrival order, and when the session has resolved
\* every append has completed, so the bytes written are
\* decode(c1) ++ ... ++ decode(cn).
C5_AppendsInArrivalOrder ==
  /\ \A a, b \in DOMAIN appendLog : a < b => appendLog[a] < appendLog[b]
  /\ settled = Resolved =>
       ConcatDecoded(appendLog, msgs) = ConcatDecoded(AudioIndexes, msgs)

\* C6: the promise resolves only after the player process has completed: never
\* while the player is running or not yet started.
C6_ResolveAfterPlayer == settled = Resolved => player \in {"ok", "failed"}

\* C7: a session whose connection closed without a transport error and that has
\* nothing left to run (player exited, no handler or file operation pending) has
\* settled its promise.
C7_SettlesWhenClosed ==
  (wsState = "closed" /\ wsError = <<>> /\ ~ENABLED Next) => settled # Pending

\* C8: every processed message flagged isFinal, with or without audio, has closed
\* the connection from this side and resolved the session.
C8_FinalClosesAndResolves ==
  \A i \in DOMAIN msgs :
    (msgs[i].kind = "json" /\ msgs[i].isFinal /\ hpc[i] = "done")
      => (wsState # "open" /\ settled # Pending)

\* The step that delivers a parsed message without audio payload.
NonAudioStep ==
  /\ Len(msgs') = Len(msgs) + 1
  /\ msgs'[Len(msgs')].kind = "json"
  /\ msgs'[Len(msgs')].audio = <<>>

\* C9: processing a message without audio payload changes neither the chunk
\* counter, the buffer, isPlaying, the connection state nor the promise, and so
\* never rejects.
C9_NonAudioIsNoOp ==
  [][NonAudioStep =>
       UNCHANGED <<chunksReceived, fileExists, fileData, appendLog, isPlaying,
                   wsState, settled>>]_vars

\* C9 witness: during a running stream (a chunk received, promise pending,
\* connection open) a non-audio message flagged isFinal has been processed.
C9_Witness ==
  /\ chunksReceived >= 1
  /\ wsState = "open"
  /\ settled = Pending
  /\ \E i \in DOMAIN msgs :
       msgs[i].kind = "json" /\ msgs[i].audio = <<>> /\ msgs[i].isFinal /\ hpc[i] = "done"

\* The step in which the socket emits its transport error.
ErrorStep == wsError = <<>> /\ wsError' # <<>>

\* C10 as stated: a transport error in any session state makes the session
\* reject with the classified message and issues deletion of tempFile.
C10_ErrorAlwaysRejects ==
  [][ErrorStep =>
       /\ settled' = Rejected(getErrorMessage(wsError'))
       /\ unlinksIssued' = unlinksIssued + 1
       /\ <<"error", 0>> \in pendingUnlinks']_vars

\* C10 amended: a transport error in any session state issues deletion of
\* tempFile whether or not playback was started, and rejects the session with the
\* classified message unless the promise had already settled, in which case the
\* earlier outcome stands.
C10_ErrorRejectsUnlessSettled ==
  [][ErrorStep =>
       /\ settled' = IF settled = Pending
                     THEN Rejected(getErrorMessage(wsError'))
                     ELSE settled
       /\ unlinksIssued' = unlinksIssued + 1
       /\ <<"error", 0>> \in pendingUnlinks']_vars

\* C10 witness: a transport error arrived while the player was running and the
\* session rejected with its classified message, the unlink issued.
C10_Witness ==
  /\ wsError # <<>>
  /\ player = "running"
  /\ settled = Rejected(getErrorMessage(wsError))
  /\ <<"error", 0>> \in pendingUnlinks

\* C11: once a connection that closed while playback had not been started (the
\* close handler found isPlaying false, also with the first append in flight) has
\* come to rest, tempFile does not exist.
C11_IdleCloseLeavesNoFile == (Quiescent /\ closedIdle) => ~fileExists

\* The step in which the promise of streamElevenLabsAudio rejects.
RejectStep == settled = Pending /\ settled'.state = "rejected"

\* C12: at the moment the promise rejects, tempFile is already deleted, the
\* connection is no longer open and the player process is not running.
C12_CleanupBeforeReject ==
  [][RejectStep => (~fileExists' /\ wsState' # "open" /\ player' # "running")]_vars

\* Number of toasts of the given kind shown so far.
ToastCount(ts, kind) == Cardinality({k \in DOMAIN ts : ts[k].kind = kind})

\* C13: once the promise has rejected, no chunk is appended to tempFile, the
\* player is not started and no "Now speaking" toast is shown any more.
C13_StopsAfterReject ==
  [][settled.state = "rejected" =>
       /\ appendLog' = appendLog
       /\ playerStarts' = playerStarts
       /\ ToastCount(toasts', "speaking") = ToastCount(toasts, "speaking")]_vars

\* Toasts that end an invocation for the user: the Success-style one carrying the
\* preview and the Failure-style one.
TerminalToasts == ToastCount(toasts, "speaking") + ToastCount(toasts, "failure")

\* C14: an invocation shows at most one terminal toast (success with the preview
\* or failure, never both), and exactly one once Command has returned.
C14_OneTerminalToast ==
  /\ TerminalToasts <= 1
  /\ cmd = "done" => TerminalToasts = 1

\* C15: once a session whose player failed has no handler and no unlink left to
\* run, tempFile is deleted and a failure toast with the player's own error
\* message (not a backend classification) has been shown, whether the final
\* message came before or after the player exited.
C15_PlayerFailureSurfaced ==
  (player = "failed" /\ HandlersIdle /\ pendingUnlinks = {}) =>
    /\ ~fileExists
    /\ \E k \in DOMAIN toasts : toasts[k] = FailureToast(PlayerExitErr)

\* C16: after an unparseable inbound message the session never resolves.
C16_MalformedIsFatal ==
  (\E i \in DOMAIN hpc : hpc[i] = "threw") => settled.state # "resolved"

\* The step in which a stop of the running invocation is requested.
CancelStep == ~cancelRequested /\ cancelRequested'

\* C17: a cancellation request at any point of a running invocation leaves the
\* connection closed (or closing), the player not running and tempFile deleted
\* or its deletion issued.
C17_CancelCleansUp ==
  [][CancelStep =>
       /\ wsState' \notin {"connecting", "open"}
       /\ player' # "running"
       /\ (~fileExists' \/ pendingUnlinks' # {})]_vars

\* C18: invocations running side by side have pairwise different temp file
\* names, whatever their start times.
C18_DistinctTempFiles ==
  \A i, j \in DOMAIN tempFiles : i # j => tempFiles[i] # tempFiles[j]

\* The socket failed with an authentication error before it opened.
AuthFailedAtHandshake ==
  /\ wsError # <<>>
  /\ Includes(wsError, "invalid_api_key")
  /\ sent = <<>>

\* C19: after an authentication failure at handshake exactly one failure toast
\* has been shown, it carries the invalid-credential message, the player was
\* never started and tempFile does not exist.
C19_AuthFailureAtHandshake ==
  AuthFailedAtHandshake =>
    /\ ToastCount(toasts, "failure") = 1
    /\ \A k \in DOMAIN toasts :
         toasts[k].kind = "failure" =>
           toasts[k].arg =
             <<"Invalid API key - Please check your ElevenLabs API key in Raycast preferences">>
    /\ playerStarts = 0
    /\ ~fileExists

\* C19 witness: the handshake failed with the authentication error, the socket
\* closed, both unlinks ran and Command returned after its failure toast.
C19_Witness ==
  /\ AuthFailedAtHandshake
  /\ wsState = "closed"
  /\ pendingUnlinks = {}
  /\ cmd = "done"
  /\ toasts[Len(toasts)] = FailureToast(InvalidCredentialMsg)

\* 0 <= x <= 1
InUnit(x) == ~x.nan /\ 0 <= x.num /\ x.num <= x.den

\* x = y as numbers
NumEq(x, y) == ~x.nan /\ ~y.nan /\ x.num * y.den = y.num * x.den

\* C20: for every pair of preference strings prepareVoiceSettings returns numbers
\* (never NaN), stability and similarity_boost both within [0,1], and a string
\* that does not parse as a number gives exactly the default, 0.5 for stability
\* and 0.75 for similarity_boost.
C20_SettingsInUnitRange ==
  cmd = "processing" =>
    /\ InUnit(voiceSettings.stability)
    /\ InUnit(voiceSettings.similarity_boost)
    /\ parseFloat(prefs.stability).nan => NumEq(voiceSettings.stability, Num(5, 10))
    /\ parseFloat(prefs.similarityBoost).nan =>
         NumEq(voiceSettings.similarity_boost, Num(75, 100))

\* C20 witness: prepareVoiceSettings ran on a non-numeric stability string and a
\* similarityBoost above 1: the default and the upper bound came out.
C20_Witness ==
  /\ cmd = "processing"
  /\ prefs = [stability |-> <<"x">>, similarityBoost |-> <<"5", ".", "5">>]
  /\ voiceSettings = [stability |-> Num(5, 10), similarity_boost |-> Num(1, 1)]

\* C21: for every preference string that parses to a number v, zero and
\* out-of-range values included, prepareVoiceSettings returns min(1, max(0, v))
\* for that field: the default never replaces a value that parsed.
C21_ParsedValueIsClamped ==
  cmd = "processing" =>
    /\ ~parseFloat(prefs.stability).nan =>
         NumEq(voiceSettings.stability, MathMin1(MathMax0(parseFloat(prefs.stability))))
    /\ ~parseFloat(prefs.similarityBoost).nan =>
         NumEq(voiceSettings.similarity_boost,
               MathMin1(MathMax0(parseFloat(prefs.similarityBoost))))

\* C22: nothing is sent before the handshake succeeded; from then on the
\* outbound messages are exactly three, sent once: the configuration (text,
\* voice settings, chunk_length_schedule [120,160,250,290], stream_chunk_size
\* 8192), then the bos marker, then the eos marker, and nothing after it.
C22_ThreeMessagesOnOpen ==
  /\ wsState \in {"none", "connecting"} => sent = <<>>
  /\ wsState = "open" => sent # <<>>
  /\ sent # <<>> =>
       /\ Len(sent) = 3
       /\ sent[1].text = selection.text
       /\ sent[1].voice_settings = voiceSettings
       /\ sent[1].generation_config.chunk_length_schedule = <<120, 160, 250, 290>>
       /\ sent[1].generation_config.stream_chunk_size = 8192
       /\ sent[2] = [type |-> "bos"]
       /\ sent[3] = [type |-> "eos"]

\* C22 witness: the session sent its three messages, then received every message
\* of the stream, and the connection closed.
C22_Witness ==
  /\ Len(sent) = 3
  /\ Len(msgs) = MaxMsgs
  /\ wsState = "closed"
  /\ HandlersIdle

\* Kinds of the toasts shown so far, in order.
ToastKinds == [k \in DOMAIN toasts |-> toasts[k].kind]

\* C23: a failure-free invocation that has completed has shown checking,
\* processing, speaking and success, in this order, each exactly once.
C23_NotificationOrder ==
  (cmd = "done" /\ settled = Resolved /\ ErrorFree /\ Quiescent) =>
    ToastKinds = <<"checking", "processing", "speaking", "success">>

\* C24: the speaking toast is shown only once the player has been started.
C24_SpeakingAfterPlayerStart ==
  ToastCount(toasts, "speaking") >= 1 => playerStarts >= 1

\* Number of maximal runs of non-whitespace characters of t.
WordRuns(t) ==
  Cardinality({k \in 1..Len(t) : ~IsSpace(t[k]) /\ (k = 1 \/ IsSpace(t[k - 1]))})

\* C25: getTextStats returns wordCount = the number of maximal runs of
\* non-whitespace characters (0 for the empty and for a whitespace-only text)
\* and charCount = the length of the untrimmed text.
C25_TextStats ==
  (call.fn = "getTextStats" /\ ret.returned) =>
    /\ ret.retStats.wordCount = WordRuns(call.argText)
    /\ ret.retStats.charCount = Len(call.argText)

\* t without the white space at its two ends, described rather than computed:
\* the piece of t from its first to its last non-whitespace character.
TrimmedPiece(t) ==
  IF \A k \in 1..Len(t) : IsSpace(t[k])
  THEN <<>>
  ELSE LET first == CHOOSE k \in 1..Len(t) :
                      ~IsSpace(t[k]) /\ \A j \in 1..(k - 1) : IsSpace(t[j])
           last == CHOOSE k \in 1..Len(t) :
                     ~IsSpace(t[k]) /\ \A j \in (k + 1)..Len(t) : IsSpace(t[j])
       IN [k \in 1..(last - first + 1) |-> t[first + k - 1]]

\* C26: getTextPreview(text, maxLength) returns the trimmed text when it has at
\* most maxLength characters, else its first maxLength characters followed by
\* "..."; the result has at most maxLength + 3 characters and is empty for the
\* empty text.
C26_TextPreview ==
  (call.fn = "getTextPreview" /\ ret.returned) =>
    LET r == ret.retPreview
        n == call.argMaxLength
        t == TrimmedPiece(call.argText)
    IN /\ Len(r) <= n + 3
       /\ call.argText = <<>> => r = <<>>
       /\ r = IF Len(t) <= n THEN t
              ELSE [k \in 1..(n + 3) |-> IF k <= n THEN t[k] ELSE "."]

\* C26 witness: the default maxLength cut a longer text with blanks at both ends
\* down to its first 50 characters and "...".
C26_Witness ==
  /\ call.fn = "getTextPreview"
  /\ ret.returned
  /\ call.argMaxLength = 50
  /\ Len(TrimmedPiece(call.argText)) > 50
  /\ Len(call.argText) > Len(TrimmedPiece(call.argText))
  /\ Len(ret.retPreview) = 53

\* C27: getErrorMessage puts every error in exactly one class: the
\* invalid-credential message when the error mentions invalid_api_key (also when
\* it mentions ENOTFOUND too), else the network message when it mentions
\* ENOTFOUND, else "ElevenLabs error: " followed by the raw message.
C27_ErrorClassification ==
  (call.fn = "getErrorMessage" /\ ret.returned) =>
    LET auth == \E k \in DOMAIN call.argError : call.argError[k] = "invalid_api_key"
        dns == \E k \in DOMAIN call.argError : call.argError[k] = "ENOTFOUND"
    IN ret.retMessage =
         IF auth
         THEN <<"Invalid API key - Please check your ElevenLabs API key in Raycast preferences">>
         ELSE IF dns
         THEN <<"No internet connection - Please check your network and try again">>
         ELSE <<"ElevenLabs error: ">> \o call.argError

\* C27 witness: an error mentioning both invalid_api_key and ENOTFOUND was
\* classified as invalid credential.
C27_Witness ==
  /\ call.fn = "getErrorMessage"
  /\ ret.returned
  /\ call.argError = <<"ENOTFOUND", "invalid_api_key">>
  /\ ret.retMessage = InvalidCredentialMsg

\* The selection was read and is unusable: reading it failed, or the text is
\* empty or consists of white space only.
SelectionRefused ==
  \/ selection.kind = "throws"
  \/ selection.kind = "text" /\ \A k \in DOMAIN selection.text : IsSpace(selection.text[k])

\* C28: with an empty or whitespace-only selection, or one that could not be
\* read, Command has ended with exactly one failure toast, and no connection was
\* opened, no temp file named or created, no player started.
C28_RefusedSelectionStopsCommand ==
  SelectionRefused =>
    /\ cmd = "done"
    /\ ToastCount(toasts, "failure") = 1
    /\ wsState = "none"
    /\ sent = <<>>
    /\ tempFiles = <<>>
    /\ ~fileExists
    /\ playerStarts = 0

\* C28 witness: a selection of blanks was refused with the no-text message.
C28_Witness ==
  /\ selection = Selected(<<" ", "\t">>)
  /\ cmd = "done"
  /\ toasts[Len(toasts)] = FailureToast(NoTextSelectedMsg)

\* C29: no append completes after tempFile was deleted, so that a session at
\* rest (connection closed, player exited, no write or unlink in flight) has no
\* tempFile.
C29_NoFileAtRest == Quiescent => ~fileExists

\* C30: the promise settles at most once (a later resolve or reject leaves the
\* outcome as it is) and Command shows at most one failure toast.
C30_SettlesOnce ==
  [][/\ settled # Pending => settled' = settled
     /\ ToastCount(toasts', "failure") <= 1]_vars

\* C30 witness: the transport error and the player failure both called reject,
\* and one failure toast was shown.
C30_Witness ==
  /\ wsError # <<>>
  /\ player = "failed"
  /\ HandlersIdle
  /\ pendingUnlinks = {}
  /\ settled.state = "rejected"
  /\ ToastCount(toasts, "failure") = 1

\* Number of messages in ms that parsed and carry a non-empty audio payload; the
\* handler of every delivered message has started.
AudioBearing(ms) ==
  Cardinality({k \in DOMAIN ms : ms[k].kind = "json" /\ ms[k].audio # <<>>})

\* C31: isPlaying is never reset to false; while it is true at least one chunk
\* has been received and at least one append has completed; chunksReceived equals
\* the number of audio-bearing messages whose handler has started.
C31_PlayingAndChunkCount ==
  [][/\ isPlaying => isPlaying'
     /\ isPlaying' => (chunksReceived' >= 1 /\ appendLog' # <<>>)
     /\ chunksReceived = AudioBearing(msgs)
     /\ chunksReceived' = AudioBearing(msgs')]_vars

\* C31 witness: playback was started by the first of two chunks while the append
\* of the other is still in flight, next to nothing else.
C31_Witness ==
  /\ isPlaying
  /\ chunksReceived = 2
  /\ Len(appendLog) = 1
  /\ \E i \in DOMAIN hpc : hpc[i] = "write"

\* The session received open, one audio chunk flagged isFinal, a failing player
\* exit and close, in that order of arrival, no transport error, and is at rest.
FinalChunkPlayerFailed ==
  /\ Len(msgs) = 1
  /\ HasAudio(msgs[1])
  /\ msgs[1].isFinal
  /\ wsError = <<>>
  /\ player = "failed"
  /\ Quiescent

\* C32: the two variants are observationally equivalent. For the events open,
\* final audio chunk, failing player exit, close, the awaiting variant always
\* rejects with the player's error (the handler reaches the isFinal test only
\* after the catch block); equivalence requires that outcome of either variant.
C32_VariantsSameOutcome ==
  FinalChunkPlayerFailed => settled = Rejected(PlayerExitErr)

====
